---- MODULE Spec2Model ----
(***************************************************************************)
(* Retrieval and pattern-detection pipeline of the Argus intelligence     *)
(* platform: chunker, document processor, vector store, search engine     *)
(* and pattern detector.                                                   *)
(*                                                                         *)
(* Numbers.  Distances and similarities are fixed-point values in units    *)
(* of 1/MICRO.  Embedding vectors are integer pairs of squared norm        *)
(* NormSq, so every cosine is an exact multiple of 1/NormSq.               *)
(* Text.  A token is an integer; a paragraph is a sequence of tokens; a    *)
(* text is a sequence of paragraphs (the pieces between blank lines); a    *)
(* chunk is a sequence of paragraphs (joined by "\n\n" in the source).     *)
(***************************************************************************)
EXTENDS Integers, Sequences, FiniteSets, TLC

VARIABLES documents, chunks, store, CHUNK_SIZE, out, ckIn, ckOut

vars == <<documents, chunks, store, CHUNK_SIZE, out, ckIn, ckOut>>

\* ------------------------------------------------------------------ bounds
MaxDocs == 2
MaxRows == 4
MaxTopK == 2
NetDocs == 5
MaxParas == 2
ConnDocs == 3

\* --------------------------------------------------------------- constants
MICRO == 1000 * 1000
NormSq == 5 * 5
DEFAULT_CHUNK_SIZE == 1000
CHUNK_OVERLAP == 100
PARAGRAPH_OVERLAP == 100
similarity_threshold == 700000

\* a null embedding_id (None); an embedding_id is the tuple ChunkId(d, i)
NoEmbedding == <<>>

\* ----------------------------------------------------------------- helpers
Min(a, b) == IF a < b THEN a ELSE b

Max(a, b) == IF a > b THEN a ELSE b

SetMax(S) == CHOOSE x \in S : \A y \in S : y <= x

Range(s) == {s[i] : i \in 1..Len(s)}

RECURSIVE SumSeq(_)
SumSeq(s) == IF s = <<>> THEN 0 ELSE s[1] + SumSeq(Tail(s))

RECURSIVE Flatten(_)
Flatten(ss) == IF ss = <<>> THEN <<>> ELSE ss[1] \o Flatten(Tail(ss))

\* number of whitespace-delimited tokens of a chunk
TokenCount(chunk) == Len(Flatten(chunk))

\* ----------------------------------------------------------------- chunker
\* a call that returns the list c / a call whose loop never ends
Returns(c) == [terminates |-> TRUE, chunks |-> c]

Diverges == [terminates |-> FALSE, chunks |-> <<>>]

\* a slice that takes one word too many
SliceInclusive(words, start, end) == SubSeq(words, Max(start, 0) + 1, Min(end + 1, Len(words)))

\* words[start:end] with Python slice semantics (0-based, end exclusive)
Slice(words, start, end) == SubSeq(words, Max(start, 0) + 1, Min(end, Len(words)))

\* the while loop of chunk_text, for a window that advances (chunk_size > overlap)
RECURSIVE chunk_text_loop(_, _, _, _, _)
chunk_text_loop(words, chunk_size, overlap, start, acc) ==
    IF ~(start < Len(words)) THEN acc
    ELSE LET end == start + chunk_size
         IN chunk_text_loop(words, chunk_size, overlap, end - overlap,
                            Append(acc, <<Slice(words, start, end)>>))

\* chunk_text(text, chunk_size, overlap); 0 stands for an omitted/falsy argument.
\* With chunk_size <= overlap, start never grows and the loop never ends.
chunk_text(words, chunk_size_arg, overlap_arg) ==
    LET chunk_size == IF chunk_size_arg = 0 THEN CHUNK_SIZE ELSE chunk_size_arg
        overlap == IF overlap_arg = 0 THEN CHUNK_OVERLAP ELSE overlap_arg
    IN IF Len(words) <= chunk_size THEN Returns(<< <<words>> >>)
       ELSE IF chunk_size - overlap <= 0 THEN Diverges
       ELSE Returns(chunk_text_loop(words, chunk_size, overlap, 0, <<>>))

RECURSIVE paragraphs_loop(_, _, _, _, _, _)
paragraphs_loop(paragraphs, i, chunk_size, acc, current_chunk, current_size) ==
    IF i > Len(paragraphs)
    THEN Returns(IF current_chunk # <<>> THEN Append(acc, current_chunk) ELSE acc)
    ELSE LET para == paragraphs[i]
             para_size == Len(para)
         IN IF para_size = 0
            THEN paragraphs_loop(paragraphs, i + 1, chunk_size, acc, current_chunk, current_size)
            ELSE IF para_size > chunk_size
            THEN LET flushed == IF current_chunk # <<>> THEN Append(acc, current_chunk) ELSE acc
                     para_chunks == chunk_text(para, chunk_size, PARAGRAPH_OVERLAP)
                 IN IF ~para_chunks.terminates THEN Diverges
                    ELSE paragraphs_loop(paragraphs, i + 1, chunk_size,
                                         flushed \o para_chunks.chunks, <<>>, 0)
            ELSE IF current_size + para_size > chunk_size /\ current_chunk # <<>>
            THEN paragraphs_loop(paragraphs, i + 1, chunk_size, Append(acc, current_chunk),
                                 <<para>>, para_size)
            ELSE paragraphs_loop(paragraphs, i + 1, chunk_size, acc,
                                 Append(current_chunk, para), current_size + para_size)

\* chunk_text_by_paragraphs(text, chunk_size); 0 stands for an omitted/falsy argument
chunk_text_by_paragraphs(text, chunk_size_arg) ==
    LET chunk_size == IF chunk_size_arg = 0 THEN CHUNK_SIZE ELSE chunk_size_arg
    IN paragraphs_loop(text, 1, chunk_size, <<>>, <<>>, 0)

\* ------------------------------------------------------- embedding provider
\* embed_text: a deterministic function of the text (here of its first token)
TokenVector(t) ==
    CASE t = 1 -> <<5, 0>> [] t = 2 -> <<3, 4>> [] t = 3 -> <<-5, 0>> [] t = 4 -> <<0, 5>>
      [] t = 5 -> <<0, -5>> [] OTHER -> <<4, 3>>

embed_text(text) ==
    LET words == Flatten(text)
    IN IF words = <<>> THEN <<4, 3>> ELSE TokenVector(words[1])

\* embed_batch: one result per text, in order
embed_batch(texts) == [i \in 1..Len(texts) |-> embed_text(texts[i])]

\* ------------------------------------------------------------ vector store
Dot(u, v) == u[1] * v[1] + u[2] * v[2]

\* cosine distance of the collection ("hnsw:space": "cosine"): 1 - cos, in [0, 2]
CosineDistance(u, v) == ((NormSq - Dot(u, v)) * MICRO) \div NormSq

\* a point id built from the position of the row in the table instead
ChunkIdByRow(document_id, chunk_index) == <<document_id, Len(chunks) + chunk_index>>

\* the point id "chunk_{document_id}_{chunk_index}"
ChunkId(document_id, chunk_index) == <<document_id, chunk_index>>

EmptyStore == <<>>

\* an add that replaces the content of the collection by the new points
VectorStoreAddFresh(st, ids, embeddings, docs, metadatas) ==
    [id \in Range(ids) |->
        LET i == CHOOSE k \in 1..Len(ids) : ids[k] = id
        IN [embedding |-> embeddings[i], document |-> docs[i], metadata |-> metadatas[i]]]

\* VectorStore.add: collection.add leaves a point whose id already exists as it is
VectorStoreAdd(st, ids, embeddings, docs, metadatas) ==
    [id \in (DOMAIN st) \cup Range(ids) |->
        IF id \in DOMAIN st THEN st[id]
        ELSE LET i == CHOOSE k \in 1..Len(ids) : ids[k] = id
             IN [embedding |-> embeddings[i], document |-> docs[i], metadata |-> metadatas[i]]]

\* no where-filter / the where-filter {"document_id": {"$in": ids}}
NoFilter == [filtered |-> FALSE, ids |-> {}]

InFilter(ids) == [filtered |-> TRUE, ids |-> ids]

\* the points a where-filter lets through
Matching(st, where) ==
    {id \in DOMAIN st : ~where.filtered \/ st[id].metadata.document_id \in where.ids}

Hit(st, id, query_embedding) ==
    [id |-> id, distance |-> CosineDistance(query_embedding, st[id].embedding),
     metadata |-> st[id].metadata, document |-> st[id].document]

\* VectorStore.query: the n_results nearest matching points, ascending distance;
\* the order among points at equal distance is the index's choice
RECURSIVE AscendingOrders(_)
AscendingOrders(hits) ==
    IF hits = {} THEN {<<>>}
    ELSE UNION {{<<h>> \o s : s \in AscendingOrders(hits \ {h})} :
                h \in {x \in hits : \A y \in hits : x.distance <= y.distance}}

QueryResults(st, query_embedding, n_results, where) ==
    LET all == {Hit(st, id, query_embedding) : id \in Matching(st, where)}
    IN {SubSeq(s, 1, Min(n_results, Len(s))) : s \in AscendingOrders(all)}

\* the methods class VectorStore defines
VectorStoreMethods == {"add", "query", "get", "delete", "count", "reset"}

\* ------------------------------------------------------------- relational store
\* rows of table document_chunks of one document, in table order
ChunksOf(rows, document_id) == SelectSeq(rows, LAMBDA r : r.document_id = document_id)

\* INTEGER PRIMARY KEY on SQLite: one more than the largest id in the table
NextDocumentId(docs) == IF DOMAIN docs = {} THEN 1 ELSE SetMax(DOMAIN docs) + 1

NoOutput == [op |-> "none"]

\* ------------------------------------------------------- document processor
\* DocumentProcessor._generate_embeddings on the rows just created; embedOK and
\* addOK say whether embed_batch and VectorStore.add return or raise
generate_embeddings(document_chunks, st, embedOK, addOK) ==
    IF document_chunks = <<>>
    THEN [rows |-> document_chunks, store |-> st, ids |-> <<>>, raised |-> FALSE]
    ELSE IF ~embedOK
    THEN [rows |-> document_chunks, store |-> st, ids |-> <<>>, raised |-> TRUE]
    ELSE LET texts == [i \in 1..Len(document_chunks) |-> document_chunks[i].chunk_text]
             embedding_results == embed_batch(texts)
             ids == [i \in 1..Len(document_chunks) |->
                        ChunkId(document_chunks[i].document_id, document_chunks[i].chunk_index)]
             metadatas == [i \in 1..Len(document_chunks) |->
                              [document_id |-> document_chunks[i].document_id,
                               chunk_index |-> document_chunks[i].chunk_index,
                               chunk_id |-> 0]]
             marked == [i \in 1..Len(document_chunks) |->
                           [document_chunks[i] EXCEPT !.embedding_id = ids[i]]]
         IN IF ~addOK
            THEN [rows |-> marked, store |-> st, ids |-> ids, raised |-> TRUE]
            ELSE [rows |-> marked, store |-> VectorStoreAdd(st, ids, embedding_results, texts, metadatas),
                  ids |-> ids, raised |-> FALSE]

\* the rows process_document creates from the chunker's output, chunk_index = position
NewRows(document_id, chunks_text) ==
    [i \in 1..Len(chunks_text) |->
        [document_id |-> document_id, chunk_index |-> i - 1,
         chunk_text |-> chunks_text[i], embedding_id |-> NoEmbedding]]

\* a processor that marks the document failed when the embedding step raised
StatusFailedOnError(raised) == IF raised THEN "failed" ELSE "completed"

\* lines 81-89: the exception of _generate_embeddings is logged and the document
\* is marked completed whether or not it raised
StatusAfterEmbeddings(raised) == "completed"

\* DocumentProcessor.process_document: the state it leaves behind and what it did
process_document(d, parsed, embedOK, addOK) ==
    IF ~parsed.ok
    THEN [documents |-> [documents EXCEPT ![d].processing_status = "failed",
                                          ![d].error_message = "parse error"],
          chunks |-> chunks, store |-> store,
          out |-> [op |-> "process", document_id |-> d, outcome |-> "raised",
                   created |-> 0, ids |-> <<>>, embedded |-> FALSE]]
    ELSE LET chunked == chunk_text_by_paragraphs(parsed.text, 0)
         IN IF ~chunked.terminates
            THEN [documents |-> [documents EXCEPT ![d].processing_status = "processing",
                                                  ![d].title = IF parsed.title # "" THEN parsed.title ELSE @],
                  chunks |-> chunks, store |-> store,
                  out |-> [op |-> "process", document_id |-> d, outcome |-> "hangs",
                           created |-> 0, ids |-> <<>>, embedded |-> FALSE]]
            ELSE LET gen == generate_embeddings(NewRows(d, chunked.chunks), store, embedOK, addOK)
                 IN [documents |-> [documents EXCEPT ![d].processing_status = StatusAfterEmbeddings(gen.raised),
                                                     ![d].title = IF parsed.title # "" THEN parsed.title ELSE @],
                     chunks |-> chunks \o gen.rows, store |-> gen.store,
                     out |-> [op |-> "process", document_id |-> d, outcome |-> "returned",
                              created |-> Len(gen.rows), ids |-> gen.ids,
                              embedded |-> ~gen.raised /\ gen.rows # <<>>]]

\* ------------------------------------------------------------ search engine
\* round(x, 4) on a fixed-point value in units of 1/MICRO (ties to even)
Round4(x) ==
    LET q == x \div 100
        r == x % 100
    IN 100 * (IF r > 50 \/ (r = 50 /\ q % 2 = 1) THEN q + 1 ELSE q)

\* a relevance that forgets to halve the distance
RelevanceUnhalved(distance) == MICRO - distance

\* relevance_score = 1 - (distance / 2)
RelevanceScore(distance) == MICRO - (distance \div 2)

\* a loop that stops at the first hit whose document record is missing
SearchResultsUntilMissing(docs, hits) ==
    LET missing == {i \in 1..Len(hits) : hits[i].metadata.document_id \notin DOMAIN docs}
        known == IF missing = {} THEN hits
                 ELSE SubSeq(hits, 1, (CHOOSE i \in missing : \A j \in missing : i <= j) - 1)
    IN [i \in 1..Len(known) |->
           LET document == docs[known[i].metadata.document_id]
           IN [document_id |-> known[i].metadata.document_id,
               document_title |-> IF document.title # "" THEN document.title ELSE document.filename,
               document_filename |-> document.filename,
               chunk_text |-> known[i].document,
               relevance_score |-> Round4(RelevanceScore(known[i].distance)),
               chunk_index |-> known[i].metadata.chunk_index]]

\* the loop of SearchEngine.search over the hits of the vector store
SearchResults(docs, hits) ==
    LET known == SelectSeq(hits, LAMBDA h : h.metadata.document_id \in DOMAIN docs)
    IN [i \in 1..Len(known) |->
           LET document == docs[known[i].metadata.document_id]
           IN [document_id |-> known[i].metadata.document_id,
               document_title |-> IF document.title # "" THEN document.title ELSE document.filename,
               document_filename |-> document.filename,
               chunk_text |-> known[i].document,
               relevance_score |-> Round4(RelevanceScore(known[i].distance)),
               chunk_index |-> known[i].metadata.chunk_index]]

\* where_filter of SearchEngine.search: set only for a non-empty document_ids list
WhereFilter(document_ids) ==
    IF document_ids.given /\ document_ids.ids # <<>> THEN InFilter(Range(document_ids.ids)) ELSE NoFilter

\* the extra results get_similar_chunks asks of search
similar_chunks_margin == 5

\* the row get_similar_chunks looks up: the first with this document and index
ChunkRows(rows, document_id, chunk_index) ==
    SelectSeq(rows, LAMBDA r : r.document_id = document_id /\ r.chunk_index = chunk_index)

\* the answers the index can give to the search of get_similar_chunks
SimilarChunkHits(rows, st, document_id, chunk_index, top_k) ==
    LET found == ChunkRows(rows, document_id, chunk_index)
    IN IF found = <<>> \/ found[1].embedding_id = NoEmbedding THEN {<<>>}
       ELSE QueryResults(st, embed_text(found[1].chunk_text), top_k + similar_chunks_margin, NoFilter)

\* SearchEngine.get_similar_chunks: the results of search(chunk_text, top_k + 5), as they are
get_similar_chunks(docs, rows, document_id, chunk_index, hits) ==
    LET found == ChunkRows(rows, document_id, chunk_index)
    IN IF found = <<>> \/ found[1].embedding_id = NoEmbedding THEN <<>>
       ELSE SearchResults(docs, hits)

\* a response that passes the results of the engine on as they are
SimilarChunkItemsAsReturned(results, document_id, top_k) == results

\* result_items of the route: results of other documents, cut to top_k
SimilarChunkItems(results, document_id, top_k) ==
    LET others == SelectSeq(results, LAMBDA r : r.document_id # document_id)
    IN SubSeq(others, 1, Min(top_k, Len(others)))

\* SearchRequest: query has min_length 1 and max_length 500, top_k has ge 1 and le 100
query_min_length == 1

query_max_length == 500

top_k_ge == 1

top_k_le == 100

\* the query field of a request body: absent, or a string of `length` characters
\* whose whitespace-delimited tokens are `text`
MissingQuery == [present |-> FALSE, length |-> 0, text |-> <<>>]

QueryString(length, text) == [present |-> TRUE, length |-> length, text |-> text]

\* pydantic validation of a SearchRequest
ValidSearchRequest(request) ==
    /\ request.query.present
    /\ query_min_length <= request.query.length
    /\ request.query.length <= query_max_length
    /\ top_k_ge <= request.top_k
    /\ request.top_k <= top_k_le

\* --------------------------------------------------------- pattern detector
\* similarity = 1 - distance
HitSimilarity(distance) == MICRO - distance

RECURSIVE FirstOccurrences(_, _)
FirstOccurrences(s, seen) ==
    IF s = <<>> THEN <<>>
    ELSE IF s[1] \in seen THEN FirstOccurrences(Tail(s), seen)
    ELSE <<s[1]>> \o FirstOccurrences(Tail(s), seen \cup {s[1]})

\* list.sort(key=similarity, reverse=True): stable, descending
RECURSIVE InsertDesc(_, _)
InsertDesc(sorted, x) ==
    IF sorted = <<>> THEN <<x>>
    ELSE IF sorted[1].similarity >= x.similarity THEN <<sorted[1]>> \o InsertDesc(Tail(sorted), x)
    ELSE <<x>> \o sorted

RECURSIVE SortDesc(_)
SortDesc(s) == IF s = <<>> THEN <<>> ELSE InsertDesc(SortDesc(SubSeq(s, 1, Len(s) - 1)), s[Len(s)])

\* a test that lets every similarity pass
NeverBelowThreshold(similarity) == FALSE

\* line 87: a hit whose similarity is below the detector's threshold is skipped
BelowThreshold(similarity) == similarity < similarity_threshold

\* a test that never recognises the source document
NeverSameDocument(other_doc_id, document_id) == FALSE

\* line 83: a hit of the source document itself is skipped
SameDocument(other_doc_id, document_id) == other_doc_id = document_id

\* lines 75-111 of detect_similar_documents: group the hits by document,
\* average the similarities that pass the threshold, rank, cut to top_k
GroupAndRank(document_id, top_k, hits) ==
    LET passing == SelectSeq(hits, LAMBDA h :
                       /\ ~SameDocument(h.metadata.document_id, document_id)
                       /\ ~BelowThreshold(HitSimilarity(h.distance)))
        order == FirstOccurrences([i \in 1..Len(passing) |-> passing[i].metadata.document_id], {})
        similar_docs == [k \in 1..Len(order) |->
            LET mine == SelectSeq(passing, LAMBDA h : h.metadata.document_id = order[k])
                similarities == [i \in 1..Len(mine) |-> HitSimilarity(mine[i].distance)]
            IN [document_id |-> order[k],
                filename |-> IF "filename" \in DOMAIN mine[1].metadata
                             THEN mine[1].metadata.filename ELSE "Unknown",
                similarity |-> SumSeq(similarities) \div Len(similarities),
                matching_chunks |-> Len(similarities)]]
        ranked == SortDesc(similar_docs)
    IN SubSeq(ranked, 1, Min(top_k, Len(ranked)))

\* PatternDetector.detect_similar_documents; hits is what collection.query
\* returns for the representative embedding.  caught: the except branch ran.
detect_similar_documents(docs, rows, st, document_id, top_k, hits) ==
    LET mine == IF document_id \in DOMAIN docs THEN ChunksOf(rows, document_id) ELSE <<>>
        embedded == SelectSeq(mine, LAMBDA r : r.embedding_id # NoEmbedding)
    IN IF document_id \notin DOMAIN docs \/ mine = <<>> \/ embedded = <<>>
       THEN [similar |-> <<>>, caught |-> FALSE]
       ELSE IF "get_collection" \notin VectorStoreMethods
       THEN [similar |-> <<>>, caught |-> TRUE]
       ELSE IF embedded[1].embedding_id \notin DOMAIN st
       THEN [similar |-> <<>>, caught |-> FALSE]
       ELSE [similar |-> GroupAndRank(document_id, top_k, hits), caught |-> FALSE]

\* the embedding detect_similar_documents queries with: that of the first embedded chunk
RepresentativeId(rows, document_id) ==
    LET embedded == SelectSeq(ChunksOf(rows, document_id), LAMBDA r : r.embedding_id # NoEmbedding)
    IN IF embedded = <<>> THEN NoEmbedding ELSE embedded[1].embedding_id

\* the possible answers of collection.query(n_results = top_k * 5) for document_id
NeighbourHits(rows, st, document_id, top_k) ==
    LET rep == RepresentativeId(rows, document_id)
    IN IF rep = NoEmbedding \/ rep \notin DOMAIN st THEN {<<>>}
       ELSE QueryResults(st, st[rep].embedding, top_k * 5, NoFilter)

\* ids of the completed documents in query order (doc_ids)
RECURSIVE AscendingSeq(_)
AscendingSeq(S) ==
    IF S = {} THEN <<>>
    ELSE LET m == CHOOSE x \in S : \A y \in S : x <= y IN <<m>> \o AscendingSeq(S \ {m})

CompletedIds(docs) == AscendingSeq({d \in DOMAIN docs : docs[d].processing_status = "completed"})

Reverse(s) == [i \in 1..Len(s) |-> s[Len(s) + 1 - i]]

\* np.argsort(centrality): indices by ascending value, equal values in index order
ArgSort(centrality) ==
    LET n == Len(centrality)
        Before(i, j) == centrality[i] < centrality[j] \/ (centrality[i] = centrality[j] /\ i < j)
    IN [k \in 1..n |-> CHOOSE i \in 1..n : Cardinality({j \in 1..n : Before(j, i)}) = k - 1]

\* lines 360-363: np.argsort(centrality)[-5:][::-1], keeping the indices of
\* non-zero centrality
CentralIndices(centrality) ==
    LET n == Len(centrality)
        central_indices == Reverse(SubSeq(ArgSort(centrality), Max(1, n - 4), n))
    IN SelectSeq(central_indices, LAMBDA idx : centrality[idx] > 0)

EmptyAnalysis(n, failed) ==
    [central_documents |-> <<>>, isolated_documents |-> <<>>, network_density |-> 0,
     total_connections |-> 0, total_documents |-> n, error |-> failed]

\* PatternDetector.analyze_document_network.  network_density is in units of 1/MICRO.
analyze_document_network(docs, rows, st) ==
    LET doc_ids == CompletedIds(docs)
        n_docs == Len(doc_ids)
        similar(i) == detect_similar_documents(docs, rows, st, doc_ids[i], n_docs,
                          CHOOSE h \in NeighbourHits(rows, st, doc_ids[i], n_docs) : TRUE).similar
        unknown == \E i \in 1..n_docs : \E k \in 1..Len(similar(i)) :
                       similar(i)[k].document_id \notin Range(doc_ids)
        similarity_matrix == [i \in 1..n_docs |-> [j \in 1..n_docs |->
            LET at == {k \in 1..Len(similar(i)) : similar(i)[k].document_id = doc_ids[j]}
            IN IF at = {} THEN 0 ELSE similar(i)[SetMax(at)].similarity]]
        above == {p \in (1..n_docs) \X (1..n_docs) : similarity_matrix[p[1]][p[2]] > similarity_threshold}
        centrality == [i \in 1..n_docs |-> Cardinality({p \in above : p[1] = i})]
        central == CentralIndices(centrality)
        isolated == SelectSeq([i \in 1..n_docs |-> i], LAMBDA idx : centrality[idx] = 0)
        total_possible_connections2 == n_docs * (n_docs - 1)
    IN IF n_docs < 2 THEN EmptyAnalysis(n_docs, FALSE)
       ELSE IF unknown THEN EmptyAnalysis(0, TRUE)
       ELSE [central_documents |-> [k \in 1..Len(central) |->
                    [document_id |-> doc_ids[central[k]],
                     filename |-> docs[doc_ids[central[k]]].filename,
                     connections |-> centrality[central[k]],
                     centrality_score |-> (centrality[central[k]] * MICRO) \div n_docs]],
             isolated_documents |-> [k \in 1..Len(isolated) |->
                    [document_id |-> doc_ids[isolated[k]],
                     filename |-> docs[doc_ids[isolated[k]]].filename]],
             network_density |-> IF total_possible_connections2 > 0
                                 THEN (Cardinality(above) * MICRO) \div total_possible_connections2
                                 ELSE 0,
             total_connections |-> Cardinality(above) \div 2,
             total_documents |-> n_docs,
             error |-> FALSE]

min_cluster_size == 2

max_clusters == 10

\* the payload of cluster_documents without clusters; failed: it carries "error"
EmptyClustering(n, failed) ==
    [clusters |-> <<>>, themes |-> <<>>, total_documents |-> n, n_clusters |-> 0, error |-> failed]

\* the completed documents whose first embedded chunk has a vector in the index (doc_info)
ClusterDocInfo(docs, rows, st) ==
    SelectSeq(CompletedIds(docs), LAMBDA d :
        RepresentativeId(rows, d) # NoEmbedding /\ RepresentativeId(rows, d) \in DOMAIN st)

\* the number of clusters asked of KMeans; 0 stands for n_clusters = None
ClusterCount(n_embeddings, n_clusters_arg) ==
    IF n_clusters_arg = 0 THEN Min(max_clusters, Max(2, n_embeddings \div 3)) ELSE n_clusters_arg

\* the label vectors KMeans.fit_predict can return
Labelings(docs, rows, st, n_clusters_arg) ==
    LET n == Len(ClusterDocInfo(docs, rows, st))
    IN [1..n -> 0..(ClusterCount(n, n_clusters_arg) - 1)]

\* PatternDetector.cluster_documents; cluster_labels is the answer of KMeans.
\* Centroids and theme names are left out of the payload.
cluster_documents(docs, rows, st, n_clusters_arg, cluster_labels) ==
    LET doc_info == ClusterDocInfo(docs, rows, st)
        n_clusters == ClusterCount(Len(doc_info), n_clusters_arg)
        members(c) == SelectSeq([i \in 1..Len(doc_info) |-> i], LAMBDA i : cluster_labels[i] = c)
        nonempty == SelectSeq([c \in 1..n_clusters |-> c - 1], LAMBDA c : members(c) # <<>>)
        clusters == [k \in 1..Len(nonempty) |->
                        [cluster_id |-> nonempty[k],
                         documents |-> [i \in 1..Len(members(nonempty[k])) |->
                                           doc_info[members(nonempty[k])[i]]],
                         size |-> Len(members(nonempty[k]))]]
    IN IF Len(CompletedIds(docs)) < min_cluster_size
       THEN EmptyClustering(Len(CompletedIds(docs)), FALSE)
       ELSE IF "get_collection" \notin VectorStoreMethods
       THEN EmptyClustering(0, TRUE)
       ELSE IF Len(doc_info) < min_cluster_size
       THEN EmptyClustering(Len(doc_info), FALSE)
       ELSE IF n_clusters > Len(doc_info)
       THEN EmptyClustering(0, TRUE)
       ELSE [clusters |-> clusters,
             themes |-> [k \in 1..Len(clusters) |->
                            [cluster_id |-> clusters[k].cluster_id, document_count |-> clusters[k].size]],
             total_documents |-> Len(doc_info), n_clusters |-> n_clusters, error |-> FALSE]

\* the similarity above which a connection is "high"
high_confidence == 850000

\* top_k of the detect_similar_documents call of suggest_connections
connections_top_k == 10

\* a threshold argument: None, or a value in units of 1/MICRO
NoThreshold == [given |-> FALSE, value |-> 0]

GivenThreshold(v) == [given |-> TRUE, value |-> v]

ThresholdOf(threshold_arg) == IF threshold_arg.given THEN threshold_arg.value ELSE similarity_threshold

\* a filter that drops a document whose similarity equals the threshold
FormatConnectionsStrict(document_id, threshold, similar_docs) ==
    LET kept == SelectSeq(similar_docs, LAMBDA doc : doc.similarity > threshold)
    IN [i \in 1..Len(kept) |->
           [source_document_id |-> document_id, target_document_id |-> kept[i].document_id,
            connection_type |-> "semantic_similarity", strength |-> kept[i].similarity,
            confidence |-> IF kept[i].similarity > high_confidence THEN "high" ELSE "medium",
            matching_chunks |-> kept[i].matching_chunks]]

\* lines 301-317 of suggest_connections: filter by threshold, format for the canvas
FormatConnections(document_id, threshold, similar_docs) ==
    LET kept == SelectSeq(similar_docs, LAMBDA doc : doc.similarity >= threshold)
    IN [i \in 1..Len(kept) |->
           [source_document_id |-> document_id, target_document_id |-> kept[i].document_id,
            connection_type |-> "semantic_similarity", strength |-> kept[i].similarity,
            confidence |-> IF kept[i].similarity > high_confidence THEN "high" ELSE "medium",
            matching_chunks |-> kept[i].matching_chunks]]

\* PatternDetector.suggest_connections; hits as for detect_similar_documents
suggest_connections(docs, rows, st, document_id, threshold_arg, hits) ==
    LET found == detect_similar_documents(docs, rows, st, document_id, connections_top_k, hits)
    IN [connections |-> FormatConnections(document_id, ThresholdOf(threshold_arg), found.similar),
        caught |-> found.caught]

\* whether the value an operation of the pattern detector returned carries an
\* "error" key: the lists of detect_similar_documents and suggest_connections
\* cannot; the dictionaries of the other two do in their except branches
HasErrorField(o) ==
    CASE o.op = "similar" -> FALSE
      [] o.op = "connections" -> FALSE
      [] o.op = "cluster" -> o.result.error
      [] o.op = "network" -> o.analysis.error
      [] OTHER -> FALSE

\* ---------------------------------------------------------------- inputs
Filenames == {"a.md"}

ParsedTitles == {""}

Texts == {<<>>, << <<1, 2>>, <<2>> >>, << <<3, 1, 2>> >>}

\* settings.CHUNK_SIZE of the deployment whose ingestion is explored: small, so
\* that texts of a few tokens span several chunks
IngestChunkSize == 2

\* the values of settings.CHUNK_SIZE the chunker is explored with
ChunkSizes == {IngestChunkSize, DEFAULT_CHUNK_SIZE}

ParseResults ==
    {[ok |-> FALSE, text |-> <<>>, title |-> ""]}
        \cup {[ok |-> TRUE, text |-> t, title |-> ti] : t \in Texts, ti \in ParsedTitles}

\* the last one has no token: an empty or whitespace-only query
Queries == {<< <<1>> >>, << <<3, 2>> >>, <<>>}

TopKs == 1..MaxTopK

DocumentIdLists ==
    {[given |-> FALSE, ids |-> <<>>], [given |-> TRUE, ids |-> <<>>], [given |-> TRUE, ids |-> <<1>>]}

\* n_clusters of a ClusterRequest; 0 stands for None
NClusterArgs == {0, 3}

\* threshold of a ConnectionsRequest
Thresholds == {NoThreshold, GivenThreshold(500000), GivenThreshold(800000), GivenThreshold(900000)}

\* document_id of a ConnectionsRequest
ConnectionSources == {1, 2}

\* request bodies of POST /search: no query, "", two blanks, a word, 501 characters
RequestQueries ==
    {MissingQuery, QueryString(0, <<>>), QueryString(2, <<>>), QueryString(1, << <<1>> >>),
     QueryString(501, << <<1>> >>)}

RequestTopKs == {0, 1, 101}

\* chunk_index of GET /search/similar/{document_id}/{chunk_index}
ChunkIndexes == {0, 1}

\* ----------------------------------------------------------------- actions
Init ==
    /\ documents = <<>>
    /\ chunks = <<>>
    /\ store = EmptyStore
    /\ CHUNK_SIZE = IngestChunkSize
    /\ out = NoOutput
    /\ ckIn = NoOutput
    /\ ckOut = NoOutput

\* POST /documents/upload: a pending document row; its processing is queued
upload_document(filename) ==
    LET id == NextDocumentId(documents)
    IN /\ id <= MaxDocs
       /\ documents' = [d \in (DOMAIN documents) \cup {id} |->
                           IF d = id
                           THEN [filename |-> filename, title |-> "",
                                 processing_status |-> "pending", error_message |-> ""]
                           ELSE documents[d]]
       /\ out' = [op |-> "upload", document_id |-> id]
       /\ UNCHANGED <<chunks, store, CHUNK_SIZE, ckIn, ckOut>>

Apply(r) ==
    /\ documents' = r.documents
    /\ chunks' = r.chunks
    /\ store' = r.store
    /\ out' = r.out
    /\ UNCHANGED <<CHUNK_SIZE, ckIn, ckOut>>

\* process_document_background: the queued task of an uploaded document
process_document_background(d, parsed, embedOK, addOK) ==
    /\ d \in DOMAIN documents
    /\ documents[d].processing_status = "pending"
    /\ Len(process_document(d, parsed, embedOK, addOK).chunks) <= MaxRows
    /\ Apply(process_document(d, parsed, embedOK, addOK))

\* process_document called again on a document that was processed before
reprocess_document(d, parsed, embedOK, addOK) ==
    /\ d \in DOMAIN documents
    /\ documents[d].processing_status \in {"completed", "failed"}
    /\ Len(process_document(d, parsed, embedOK, addOK).chunks) <= MaxRows
    /\ Apply(process_document(d, parsed, embedOK, addOK))

\* DELETE /documents/{document_id}: the row and, by ORM cascade, its chunk rows
delete_document(document_id) ==
    /\ document_id \in DOMAIN documents
    /\ documents' = [d \in (DOMAIN documents) \ {document_id} |-> documents[d]]
    /\ chunks' = SelectSeq(chunks, LAMBDA r : r.document_id # document_id)
    /\ out' = [op |-> "delete", document_id |-> document_id]
    /\ UNCHANGED <<store, CHUNK_SIZE, ckIn, ckOut>>

\* SearchEngine.search(query, db, top_k, document_ids)
search(query, top_k, document_ids, embedOK) ==
    /\ IF ~embedOK
       THEN out' = [op |-> "search", query |-> query, top_k |-> top_k, document_ids |-> document_ids,
                    raised |-> TRUE, results |-> <<>>]
       ELSE \E hits \in QueryResults(store, embed_text(query), top_k, WhereFilter(document_ids)) :
               out' = [op |-> "search", query |-> query, top_k |-> top_k, document_ids |-> document_ids,
                       raised |-> FALSE, results |-> SearchResults(documents, hits)]
    /\ UNCHANGED <<documents, chunks, store, CHUNK_SIZE, ckIn, ckOut>>

\* POST /search: a request that fails validation is answered 422 before the
\* handler runs; an exception of the search becomes a 500
search_documents(request, embedOK) ==
    /\ IF ~ValidSearchRequest(request)
       THEN out' = [op |-> "search_request", request |-> request, status |-> 422,
                    backend_called |-> FALSE, results |-> <<>>]
       ELSE IF ~embedOK
       THEN out' = [op |-> "search_request", request |-> request, status |-> 500,
                    backend_called |-> TRUE, results |-> <<>>]
       ELSE \E hits \in QueryResults(store, embed_text(request.query.text), request.top_k,
                                     WhereFilter(request.document_ids)) :
               out' = [op |-> "search_request", request |-> request, status |-> 200,
                       backend_called |-> TRUE, results |-> SearchResults(documents, hits)]
    /\ UNCHANGED <<documents, chunks, store, CHUNK_SIZE, ckIn, ckOut>>

\* GET /search/similar/{document_id}/{chunk_index}: an exception becomes a 500
get_search_similar(document_id, chunk_index, top_k, embedOK) ==
    /\ \E hits \in SimilarChunkHits(chunks, store, document_id, chunk_index, top_k) :
          LET found == ChunkRows(chunks, document_id, chunk_index)
              raised == found # <<>> /\ found[1].embedding_id # NoEmbedding /\ ~embedOK
              results == get_similar_chunks(documents, chunks, document_id, chunk_index, hits)
          IN out' = [op |-> "similar_chunks", document_id |-> document_id,
                     chunk_index |-> chunk_index, top_k |-> top_k,
                     status |-> IF raised THEN 500 ELSE 200,
                     similar_chunks |-> IF raised THEN <<>>
                                        ELSE SimilarChunkItems(results, document_id, top_k)]
    /\ UNCHANGED <<documents, chunks, store, CHUNK_SIZE, ckIn, ckOut>>

\* POST /patterns/similar
find_similar_documents(document_id, top_k) ==
    /\ \E hits \in NeighbourHits(chunks, store, document_id, top_k) :
          out' = [op |-> "similar", document_id |-> document_id, top_k |-> top_k,
                  result |-> detect_similar_documents(documents, chunks, store, document_id, top_k, hits)]
    /\ UNCHANGED <<documents, chunks, store, CHUNK_SIZE, ckIn, ckOut>>

\* GET /patterns/network
analyze_network ==
    /\ out' = [op |-> "network", analysis |-> analyze_document_network(documents, chunks, store)]
    /\ UNCHANGED <<documents, chunks, store, CHUNK_SIZE, ckIn, ckOut>>

\* POST /patterns/cluster: an error payload becomes a 500 response
post_patterns_cluster(n_clusters_arg) ==
    /\ \E cluster_labels \in Labelings(documents, chunks, store, n_clusters_arg) :
          LET result == cluster_documents(documents, chunks, store, n_clusters_arg, cluster_labels)
          IN out' = [op |-> "cluster", n_clusters |-> n_clusters_arg, result |-> result,
                     status |-> IF result.error THEN 500 ELSE 200]
    /\ UNCHANGED <<documents, chunks, store, CHUNK_SIZE, ckIn, ckOut>>

\* POST /patterns/connections
post_patterns_connections(document_id, threshold_arg) ==
    /\ \E hits \in NeighbourHits(chunks, store, document_id, connections_top_k) :
          out' = [op |-> "connections", document_id |-> document_id, threshold |-> threshold_arg,
                  result |-> suggest_connections(documents, chunks, store, document_id,
                                                 threshold_arg, hits)]
    /\ UNCHANGED <<documents, chunks, store, CHUNK_SIZE, ckIn, ckOut>>

\* ------------------------------------------------------ chunker on its own
\* a paragraph of n distinct tokens
Para(k, n) == [i \in 1..n |-> 1000 * k + i]

ParaLens == {0, 1, 2, 3, 106, 130}

ChunkSizeArgs == {0, 1, 2, 3, 104, 120}

OverlapArgs == {0, 1, 2}

WordCounts == {0, 1, 3, 4, 7}

ChunkTexts ==
    UNION {{[k \in 1..n |-> Para(k, lens[k])] : lens \in [1..n -> ParaLens]} : n \in 0..MaxParas}

\* the arguments of one call; overlap_given tells an overlap of 0 that was passed
\* from an omitted one (overlap = None)
InitChunk ==
    /\ documents = <<>>
    /\ chunks = <<>>
    /\ store = EmptyStore
    /\ CHUNK_SIZE \in ChunkSizes
    /\ out = NoOutput
    /\ ckOut = NoOutput
    /\ \/ \E t \in ChunkTexts, c \in ChunkSizeArgs :
             ckIn = [fn |-> "chunk_text_by_paragraphs", text |-> t, chunk_size |-> c,
                     overlap |-> 0, overlap_given |-> FALSE]
       \/ \E n \in WordCounts, c \in ChunkSizeArgs, o \in OverlapArgs, g \in BOOLEAN :
             /\ g \/ o = 0
             /\ ckIn = [fn |-> "chunk_text", text |-> <<Para(1, n)>>, chunk_size |-> c,
                        overlap |-> o, overlap_given |-> g]

\* the chunk size a call works with: its argument, or settings.CHUNK_SIZE
EffectiveChunkSize(arg) == IF arg = 0 THEN CHUNK_SIZE ELSE arg

call_chunk_text_by_paragraphs ==
    /\ ckIn.fn = "chunk_text_by_paragraphs"
    /\ ckOut = NoOutput
    /\ ckOut' = [op |-> "chunked", result |-> chunk_text_by_paragraphs(ckIn.text, ckIn.chunk_size)]
    /\ UNCHANGED <<documents, chunks, store, CHUNK_SIZE, out, ckIn>>

call_chunk_text ==
    /\ ckIn.fn = "chunk_text"
    /\ ckOut = NoOutput
    /\ ckOut' = [op |-> "chunked", result |-> chunk_text(ckIn.text[1], ckIn.chunk_size, ckIn.overlap)]
    /\ UNCHANGED <<documents, chunks, store, CHUNK_SIZE, out, ckIn>>

NextChunk == call_chunk_text_by_paragraphs \/ call_chunk_text

SpecChunk == InitChunk /\ [][NextChunk]_vars

\* --------------------------------------------- pattern detector on a corpus
\* what one document of the corpus was ingested as: the first token of its
\* one-chunk text, or 0 when embed_batch failed and the chunk has no embedding
NetKinds == 0..5

Corpora == UNION {[1..n -> NetKinds] : n \in 0..NetDocs}

CorpusRow(d, kind) ==
    [document_id |-> d, chunk_index |-> 0, chunk_text |-> << <<kind>> >>,
     embedding_id |-> IF kind = 0 THEN NoEmbedding ELSE ChunkId(d, 0)]

\* the state after uploading and processing the documents of corpus c in turn
InitNet ==
    \E c \in Corpora :
        /\ documents = [d \in DOMAIN c |-> [filename |-> "a.md", title |-> "",
                                            processing_status |-> "completed", error_message |-> ""]]
        /\ chunks = [d \in DOMAIN c |-> CorpusRow(d, c[d])]
        /\ store = [id \in {ChunkId(d, 0) : d \in {x \in DOMAIN c : c[x] # 0}} |->
                       [embedding |-> embed_text(<< <<c[id[1]]>> >>), document |-> << <<c[id[1]]>> >>,
                        metadata |-> [document_id |-> id[1], chunk_index |-> 0, chunk_id |-> 0]]]
        /\ CHUNK_SIZE = DEFAULT_CHUNK_SIZE
        /\ out = NoOutput
        /\ ckIn = NoOutput
        /\ ckOut = NoOutput

NextNet == analyze_network

SpecNet == InitNet /\ [][NextNet]_vars

\* suggested connections over the corpora of up to ConnDocs documents
SmallCorpora == UNION {[1..n -> NetKinds] : n \in 0..ConnDocs}

InitConn ==
    \E c \in SmallCorpora :
        /\ documents = [d \in DOMAIN c |-> [filename |-> "a.md", title |-> "",
                                            processing_status |-> "completed", error_message |-> ""]]
        /\ chunks = [d \in DOMAIN c |-> CorpusRow(d, c[d])]
        /\ store = [id \in {ChunkId(d, 0) : d \in {x \in DOMAIN c : c[x] # 0}} |->
                       [embedding |-> embed_text(<< <<c[id[1]]>> >>), document |-> << <<c[id[1]]>> >>,
                        metadata |-> [document_id |-> id[1], chunk_index |-> 0, chunk_id |-> 0]]]
        /\ CHUNK_SIZE = DEFAULT_CHUNK_SIZE
        /\ out = NoOutput
        /\ ckIn = NoOutput
        /\ ckOut = NoOutput

NextConn == \E d \in ConnectionSources, t \in Thresholds : post_patterns_connections(d, t)

SpecConn == InitConn /\ [][NextConn]_vars

\* ingestion: uploads, processing runs and deletions
Next ==
    \/ \E f \in Filenames : upload_document(f)
    \/ \E d \in 1..MaxDocs, p \in ParseResults, e \in BOOLEAN, a \in BOOLEAN :
          process_document_background(d, p, e, a)
    \/ \E d \in 1..MaxDocs, p \in ParseResults, e \in BOOLEAN, a \in BOOLEAN :
          reprocess_document(d, p, e, a)
    \/ \E d \in 1..MaxDocs : delete_document(d)

Spec == Init /\ [][Next]_vars

\* the upload route and its background task as the server schedules them: the
\* task queued for an uploaded document is eventually run
NextLive ==
    \/ \E f \in Filenames : upload_document(f)
    \/ \E d \in 1..MaxDocs, p \in ParseResults, e \in BOOLEAN, a \in BOOLEAN :
          process_document_background(d, p, e, a)
    \/ \E d \in 1..MaxDocs : delete_document(d)

SpecLive ==
    /\ Init
    /\ [][NextLive]_vars
    /\ \A d \in 1..MaxDocs :
          WF_vars(\E p \in ParseResults, e \in BOOLEAN, a \in BOOLEAN :
                     process_document_background(d, p, e, a))

\* the read path over every corpus that uploads, processing and deletions build
NextQuery ==
    \/ \E f \in Filenames : upload_document(f)
    \/ \E d \in 1..MaxDocs, p \in ParseResults, e \in BOOLEAN, a \in BOOLEAN :
          process_document_background(d, p, e, a)
    \/ \E d \in 1..MaxDocs : delete_document(d)
    \/ \E q \in Queries, k \in TopKs, ids \in DocumentIdLists, e \in BOOLEAN : search(q, k, ids, e)
    \/ \E d \in 1..MaxDocs, k \in TopKs : find_similar_documents(d, k)
    \/ analyze_network

SpecQuery == Init /\ [][NextQuery]_vars

\* the HTTP routes of search and clustering over the same corpora
NextApi ==
    \/ \E f \in Filenames : upload_document(f)
    \/ \E d \in 1..MaxDocs, p \in ParseResults, e \in BOOLEAN, a \in BOOLEAN :
          process_document_background(d, p, e, a)
    \/ \E d \in 1..MaxDocs : delete_document(d)
    \/ \E n \in NClusterArgs : post_patterns_cluster(n)
    \/ \E q \in RequestQueries, k \in RequestTopKs, e \in BOOLEAN :
          search_documents([query |-> q, top_k |-> k, document_ids |-> [given |-> FALSE, ids |-> <<>>]], e)
    \/ \E d \in 1..MaxDocs, i \in ChunkIndexes, k \in TopKs, e \in BOOLEAN : get_search_similar(d, i, k, e)

SpecApi == Init /\ [][NextApi]_vars

\* ------------------------------------------------------------------ claims
\* what the specification calls the similarity of a cosine distance: 1 - distance/2
ClaimSimilarity(distance) == MICRO - (distance \div 2)

\* C1: every chunk row with a non-null embedding reference has a vector stored
\* in the Vector Index under exactly that id (so a chunk whose index write did
\* not succeed has a null reference).
C1_EmbeddingReferencesStored ==
    \A i \in 1..Len(chunks) :
        chunks[i].embedding_id # NoEmbedding => chunks[i].embedding_id \in DOMAIN store

\* C2: once the delete of document d has completed, the Vector Index holds no
\* vector whose metadata document_id is d.
C2_NoVectorsAfterDelete ==
    out.op = "delete" =>
        \A id \in DOMAIN store : store[id].metadata.document_id # out.document_id

\* C3: every SearchResult has 0.0 <= relevance_score <= 1.0 and relevance_score
\* is non-increasing along the returned list.
C3_RelevanceBoundedAndOrdered ==
    out.op = "search" =>
        /\ \A i \in 1..Len(out.results) :
              0 <= out.results[i].relevance_score /\ out.results[i].relevance_score <= MICRO
        /\ \A i \in 1..Len(out.results) - 1 :
              out.results[i].relevance_score >= out.results[i + 1].relevance_score

\* a search that returned hits at different distances, the farthest one opposite to the query
C3_Witness ==
    /\ out.op = "search"
    /\ Len(out.results) >= 2
    /\ out.results[1].relevance_score > out.results[2].relevance_score
    /\ out.results[Len(out.results)].relevance_score = 0

\* the cosine distance between the query of the last search and a result's stored vector
ResultDistance(r) ==
    CosineDistance(embed_text(out.query), store[ChunkId(r.document_id, r.chunk_index)].embedding)

\* C4: every similarity derived from a cosine distance d equals 1 - d/2: the
\* relevance_score of search, and the per-hit similarity detect_similar_documents
\* compares with the threshold.
C4_SimilarityIsOneMinusHalfDistance ==
    /\ out.op = "search" =>
          \A i \in 1..Len(out.results) :
              out.results[i].relevance_score = ClaimSimilarity(ResultDistance(out.results[i]))
    /\ \A d \in DOMAIN documents :
          \A hits \in NeighbourHits(chunks, store, d, MaxTopK) :
              \A i \in 1..Len(hits) :
                  hits[i].metadata.document_id # d =>
                      HitSimilarity(hits[i].distance) = ClaimSimilarity(hits[i].distance)

\* what the specification says detect_similar_documents returns for these hits
ClaimSimilarDocuments(docs, document_id, top_k, hits) ==
    LET passing == SelectSeq(hits, LAMBDA h :
                       /\ h.metadata.document_id # document_id
                       /\ ClaimSimilarity(h.distance) >= similarity_threshold)
        order == FirstOccurrences([i \in 1..Len(passing) |-> passing[i].metadata.document_id], {})
        entries == [k \in 1..Len(order) |->
            LET mine == SelectSeq(passing, LAMBDA h : h.metadata.document_id = order[k])
                similarities == [i \in 1..Len(mine) |-> ClaimSimilarity(mine[i].distance)]
            IN [document_id |-> order[k],
                filename |-> IF order[k] \in DOMAIN docs THEN docs[order[k]].filename ELSE "Unknown",
                similarity |-> SumSeq(similarities) \div Len(similarities),
                matching_chunks |-> Len(similarities)]]
        ranked == SortDesc(entries)
    IN SubSeq(ranked, 1, Min(top_k, Len(ranked)))

\* C5: detect_similar_documents(d, top_k) reports, for every other document with
\* a fetched neighbour chunk at or above the threshold, its id, its filename, the
\* mean of those similarities and their number, ordered by the mean descending
\* and cut to top_k.
C5_SimilarDocumentsReported ==
    out.op = "similar" =>
        \E hits \in NeighbourHits(chunks, store, out.document_id, out.top_k) :
            out.result.similar = ClaimSimilarDocuments(documents, out.document_id, out.top_k, hits)

\* C6: each chunk the chunker returns has at most target_size tokens.
C6_ChunkSizeBound ==
    (ckOut.op = "chunked" /\ ckOut.result.terminates) =>
        \A i \in 1..Len(ckOut.result.chunks) :
            TokenCount(ckOut.result.chunks[i]) <= EffectiveChunkSize(ckIn.chunk_size)

\* an oversized paragraph was windowed into full-size chunks after a paragraph chunk
C6_Witness ==
    /\ ckOut.op = "chunked"
    /\ ckIn.fn = "chunk_text_by_paragraphs"
    /\ ckOut.result.terminates
    /\ Len(ckOut.result.chunks) >= 3
    /\ \E k \in 1..Len(ckIn.text) : Len(ckIn.text[k]) > EffectiveChunkSize(ckIn.chunk_size)
    /\ \E i \in 1..Len(ckOut.result.chunks) :
          TokenCount(ckOut.result.chunks[i]) = EffectiveChunkSize(ckIn.chunk_size)
    /\ \E k \in 1..Len(ckIn.text) :
          Len(ckIn.text[k]) > 0 /\ Len(ckIn.text[k]) <= EffectiveChunkSize(ckIn.chunk_size)

\* C7: the chunk_index values of a document's chunk rows are exactly 0..N-1,
\* each once, in chunker order, also after a repeated run of process_document.
C7_ChunkIndexContiguous ==
    \A d \in DOMAIN documents :
        LET rows == ChunksOf(chunks, d)
        IN \A i \in 1..Len(rows) : rows[i].chunk_index = i - 1

\* the step is a second, successful run of process_document on a document whose
\* first run created the same chunks and stored their vectors
SecondRun ==
    LET d == out'.document_id
        before == ChunksOf(chunks, d)
        after == ChunksOf(chunks', d)
    IN /\ out'.op = "process"
       /\ out'.outcome = "returned"
       /\ out'.embedded
       /\ before # <<>>
       /\ Len(before) = out'.created
       /\ Len(after) = 2 * out'.created
       /\ \A i \in 1..Len(before) :
             /\ before[i].embedding_id \in DOMAIN store
             /\ after[Len(before) + i].chunk_text = before[i].chunk_text

\* C8: a second ingestion of the same document writes exactly the vector ids
\* chunk_{document_id}_{chunk_index} of the first run; afterwards the index
\* holds one vector per such id and every embedding reference is valid (the
\* second add is a no-op).
C8_ReingestionIdempotent ==
    [][SecondRun =>
          LET d == out'.document_id
              before == ChunksOf(chunks, d)
              after == ChunksOf(chunks', d)
          IN /\ out'.ids = [i \in 1..Len(before) |-> before[i].embedding_id]
             /\ \A i \in 1..Len(out'.ids) : out'.ids[i] = ChunkId(d, i - 1)
             /\ store' = store
             /\ \A i \in 1..Len(after) : after[i].embedding_id \in DOMAIN store']_vars

\* a document whose two-chunk text was ingested twice, both runs embedded
C8_Witness ==
    /\ out.op = "process"
    /\ out.embedded
    /\ out.created = 2
    /\ LET rows == ChunksOf(chunks, out.document_id)
       IN /\ Len(rows) = 4
          /\ \A i \in 1..4 : rows[i].embedding_id \in DOMAIN store
          /\ \A i \in 1..2 : rows[i].chunk_text = rows[i + 2].chunk_text

\* similarity of document b to document a as the specification defines it: the
\* mean of the at-or-above-threshold similarities of b's chunks to a's
\* representative vector (0 when there is none)
ClaimPairSimilarity(a, b) ==
    LET rep == RepresentativeId(chunks, a)
        theirs == IF rep = NoEmbedding \/ rep \notin DOMAIN store THEN {}
                  ELSE {id \in DOMAIN store :
                          /\ store[id].metadata.document_id = b
                          /\ ClaimSimilarity(CosineDistance(store[rep].embedding, store[id].embedding))
                                >= similarity_threshold}
        ordered == AscendingSeq({id[2] : id \in theirs})
        sims == [i \in 1..Len(ordered) |->
                    ClaimSimilarity(CosineDistance(store[rep].embedding,
                                                   store[ChunkId(b, ordered[i])].embedding))]
    IN IF theirs = {} THEN 0 ELSE SumSeq(sims) \div Len(sims)

Completed == {d \in DOMAIN documents : documents[d].processing_status = "completed"}

ClaimConnected(a, b) ==
    a # b /\ (ClaimPairSimilarity(a, b) > similarity_threshold
              \/ ClaimPairSimilarity(b, a) > similarity_threshold)

\* the unordered pairs of completed documents whose similarity exceeds the threshold
ClaimConnections == {p \in SUBSET Completed : \E a, b \in p : p = {a, b} /\ ClaimConnected(a, b)}

ClaimCentrality(d) == Cardinality({o \in Completed : ClaimConnected(d, o)})

\* C9: 0 <= network_density <= 1; density is 0 with fewer than 2 completed
\* documents; total_connections is the number of unordered pairs above the
\* threshold and network_density = total_connections / (n(n-1)/2).
C9_NetworkDensity ==
    out.op = "network" =>
        LET n == Cardinality(Completed)
            r == out.analysis
        IN /\ 0 <= r.network_density /\ r.network_density <= MICRO
           /\ n < 2 => r.network_density = 0
           /\ r.total_connections = Cardinality(ClaimConnections)
           /\ n >= 2 => r.network_density = (2 * r.total_connections * MICRO) \div (n * (n - 1))

\* C10: centrality = number of other documents above the threshold; the
\* isolated documents are exactly those of centrality zero; in a 5-document
\* corpus with one pair above the threshold both are reported with 1 connection,
\* total_connections is 1 and the other three are isolated (stated for every
\* corpus of at least 2 completed documents).
C10_CentralityAndIsolation ==
    (out.op = "network" /\ Cardinality(Completed) >= 2) =>
        LET r == out.analysis
        IN /\ {r.isolated_documents[i].document_id : i \in 1..Len(r.isolated_documents)}
                 = {d \in Completed : ClaimCentrality(d) = 0}
           /\ \A i \in 1..Len(r.central_documents) :
                 r.central_documents[i].connections = ClaimCentrality(r.central_documents[i].document_id)
           /\ Cardinality(Completed) <= 5 =>
                 {r.central_documents[i].document_id : i \in 1..Len(r.central_documents)}
                    = {d \in Completed : ClaimCentrality(d) > 0}
           /\ r.total_connections = Cardinality(ClaimConnections)

\* the documents that qualify for clustering: processing completed and at
\* least one embedded chunk
Qualifying ==
    {d \in Completed : \E i \in 1..Len(chunks) :
        chunks[i].document_id = d /\ chunks[i].embedding_id # NoEmbedding}

\* C11: cluster_documents called when fewer than 2 documents qualify returns
\* clusters = [], themes = [] and n_clusters = 0 with no error field.
C11_TooFewDocumentsEmptyClustering ==
    (out.op = "cluster" /\ Cardinality(Qualifying) < 2) =>
        /\ out.result.clusters = <<>>
        /\ out.result.themes = <<>>
        /\ out.result.n_clusters = 0
        /\ ~out.result.error

\* an internal error occurred inside the last pattern detector operation: an
\* except branch ran, in the operation or in a detect_similar_documents it called
InternalError ==
    CASE out.op = "similar" -> out.result.caught
      [] out.op = "connections" -> out.result.caught
      [] out.op = "cluster" -> out.result.error
      [] out.op = "network" ->
            \/ out.analysis.error
            \/ \E d \in Completed :
                  detect_similar_documents(documents, chunks, store, d, Cardinality(Completed),
                      CHOOSE h \in NeighbourHits(chunks, store, d, Cardinality(Completed)) : TRUE).caught
      [] OTHER -> FALSE

\* C12: whenever an internal error occurs inside a Pattern Detector operation
\* (detect_similar_documents, suggest_connections, cluster_documents,
\* analyze_document_network), the result carries an error field.
C12_InternalErrorCarriesErrorField ==
    (out.op \in {"similar", "connections", "cluster", "network"} /\ InternalError) => HasErrorField(out)

\* the step is a run of process_document that created chunk rows and whose
\* embedding call or index write failed
FailedEmbeddingRun ==
    /\ out'.op = "process"
    /\ out'.outcome = "returned"
    /\ out'.created > 0
    /\ ~out'.embedded

\* C13: if the embedding call or the Vector Index write fails during ingestion,
\* the chunk rows created for the document are kept and the document finishes
\* non-failed with its embeddings absent from the index.
C13_EmbeddingFailureKeepsChunks ==
    [][FailedEmbeddingRun =>
          LET d == out'.document_id
              n == out'.created
          IN /\ Len(chunks') = Len(chunks) + n
             /\ SubSeq(chunks', 1, Len(chunks)) = chunks
             /\ \A i \in 1..n : /\ chunks'[Len(chunks) + i].document_id = d
                                /\ chunks'[Len(chunks) + i].chunk_index = i - 1
             /\ documents'[d].processing_status \notin {"failed", "pending", "processing"}
             /\ store' = store]_vars

\* a document whose two chunks were stored although embed_batch raised
C13_Witness ==
    /\ out.op = "process"
    /\ out.outcome = "returned"
    /\ out.created = 2
    /\ ~out.embedded
    /\ out.ids = <<>>
    /\ Len(ChunksOf(chunks, out.document_id)) = 2
    /\ documents[out.document_id].processing_status = "completed"
    /\ \A id \in DOMAIN store : store[id].metadata.document_id # out.document_id

\* C14: search called with an empty or whitespace-only query returns an empty
\* result list, whatever the Vector Index holds (stated for the calls in which
\* the embedding provider answers, so that nothing but the query is at fault).
C14_BlankQueryEmptyResult ==
    (out.op = "search" /\ Flatten(out.query) = <<>> /\ ~out.raised) => out.results = <<>>

\* C15: a search request whose query is missing, empty or whitespace-only, or
\* whose top_k lies outside 1..100, is rejected with a validation error before
\* the embedding provider or the Vector Index is called.
C15_MalformedRequestRejected ==
    (/\ out.op = "search_request"
     /\ \/ ~out.request.query.present
        \/ Flatten(out.request.query.text) = <<>>
        \/ out.request.top_k \notin 1..100) =>
        out.status = 422 /\ ~out.backend_called

\* C16: whenever search is called with a document_ids list (the empty list
\* included), every returned result's document_id is a member of that list.
C16_ResultsWithinDocumentIds ==
    (out.op = "search" /\ out.document_ids.given) =>
        \A i \in 1..Len(out.results) : out.results[i].document_id \in Range(out.document_ids.ids)

\* C17: detect_similar_documents(d) returns no entry whose document_id is d:
\* neither the list it returned nor, for any answer of the index, the list its
\* grouping step builds from the fetched neighbours.
C17_SimilarExcludesSelf ==
    out.op = "similar" =>
        /\ \A i \in 1..Len(out.result.similar) :
              out.result.similar[i].document_id # out.document_id
        /\ \A hits \in NeighbourHits(chunks, store, out.document_id, out.top_k) :
              LET ranked == GroupAndRank(out.document_id, out.top_k, hits)
              IN \A i \in 1..Len(ranked) : ranked[i].document_id # out.document_id

\* the neighbours fetched for d include a chunk of d itself (at distance 0) and
\* a chunk of another document that passes the threshold
C17_Witness ==
    /\ out.op = "similar"
    /\ \E hits \in NeighbourHits(chunks, store, out.document_id, out.top_k) :
          /\ \E i \in 1..Len(hits) : hits[i].metadata.document_id = out.document_id
          /\ GroupAndRank(out.document_id, out.top_k, hits) # <<>>

ClaimConnectionsOf(connections, d, threshold, found) ==
    LET kept == {k \in 1..Len(found) : found[k].similarity >= threshold}
    IN /\ Len(connections) = Cardinality(kept)
       /\ \A k \in kept : \E i \in 1..Len(connections) :
             /\ connections[i].target_document_id = found[k].document_id
             /\ connections[i].strength = found[k].similarity
       /\ \A i \in 1..Len(connections) :
             /\ connections[i].source_document_id = d
             /\ connections[i].confidence = (IF connections[i].strength > 850000 THEN "high" ELSE "medium")

\* C19: suggest_connections(d, threshold) returns one connection for each of
\* the up-to-10 documents found by detect_similar_documents whose similarity is
\* at or above the threshold (0.7 when none is supplied), with
\* source_document_id = d and confidence "high" exactly when similarity > 0.85.
\* Stated for the list the operation returned and, for every answer of the
\* index, for the list its formatting step builds from the grouped neighbours.
C19_ConnectionsFormatted ==
    out.op = "connections" =>
        LET d == out.document_id
            threshold == IF out.threshold.given THEN out.threshold.value ELSE 700000
        IN \A hits \in NeighbourHits(chunks, store, d, 10) :
              LET returned == detect_similar_documents(documents, chunks, store, d, 10, hits).similar
                  grouped == GroupAndRank(d, 10, hits)
              IN /\ Len(returned) <= 10
                 /\ ClaimConnectionsOf(out.result.connections, d, threshold, returned)
                 /\ ClaimConnectionsOf(FormatConnections(d, threshold, grouped), d, threshold, grouped)

\* connections asked with a supplied threshold for a document that has one
\* neighbour exactly at the threshold and one above 0.85
C19_Witness ==
    /\ out.op = "connections"
    /\ out.threshold = GivenThreshold(800000)
    /\ \E hits \in NeighbourHits(chunks, store, out.document_id, 10) :
          LET grouped == GroupAndRank(out.document_id, 10, hits)
              formatted == FormatConnections(out.document_id, 800000, grouped)
          IN /\ \E i \in 1..Len(formatted) : formatted[i].confidence = "high"
             /\ \E i \in 1..Len(formatted) :
                   formatted[i].confidence = "medium" /\ formatted[i].strength = 800000

\* the overlap the call is configured with: the overlap argument of chunk_text
\* when one is passed, settings.CHUNK_OVERLAP otherwise
ConfiguredOverlap ==
    IF ckIn.fn = "chunk_text" /\ ckIn.overlap_given THEN ckIn.overlap ELSE 100

\* C20: when a paragraph longer than target_size is split, consecutive windows
\* start target_size - overlap tokens apart for the configured overlap (any
\* 0 <= overlap < target_size): window i holds the target_size tokens from
\* (i-1) * (target_size - overlap) on, so the last overlap tokens of a full
\* window are the first of the next.
C20_WindowsAdvanceBySizeMinusOverlap ==
    (/\ ckOut.op = "chunked"
     /\ Len(ckIn.text) = 1
     /\ Len(ckIn.text[1]) > EffectiveChunkSize(ckIn.chunk_size)
     /\ ConfiguredOverlap < EffectiveChunkSize(ckIn.chunk_size)) =>
        LET words == ckIn.text[1]
            target_size == EffectiveChunkSize(ckIn.chunk_size)
            step == target_size - ConfiguredOverlap
            windows == ckOut.result.chunks
        IN /\ ckOut.result.terminates
           /\ Len(windows) >= 2
           /\ \A i \in 1..Len(windows) :
                 Flatten(windows[i]) = Slice(words, (i - 1) * step, (i - 1) * step + target_size)
           /\ \A i \in 1..(Len(windows) - 1) :
                 Len(Flatten(windows[i])) = target_size =>
                     SubSeq(Flatten(windows[i]), target_size - ConfiguredOverlap + 1, target_size)
                        = SubSeq(Flatten(windows[i + 1]), 1, ConfiguredOverlap)

\* C21: chunking an empty or whitespace-only text returns an empty sequence of
\* chunks, for every chunking entry point.
C21_BlankTextNoChunks ==
    (ckOut.op = "chunked" /\ Flatten(ckIn.text) = <<>>) =>
        ckOut.result.terminates /\ ckOut.result.chunks = <<>>

\* the stored vectors of document e
VectorsOf(st, e) == {id \in DOMAIN st : st[id].metadata.document_id = e}

\* C22: ingesting a document, whether the ingestion succeeds or fails at any
\* step, leaves every other document's processing status, chunk rows, embedding
\* references and stored vectors unchanged.
C22_IngestionLeavesOthersAlone ==
    [][out'.op = "process" =>
          \A e \in (DOMAIN documents) \ {out'.document_id} :
              /\ e \in DOMAIN documents'
              /\ documents'[e] = documents[e]
              /\ ChunksOf(chunks', e) = ChunksOf(chunks, e)
              /\ VectorsOf(store', e) = VectorsOf(store, e)
              /\ \A id \in VectorsOf(store, e) : store'[id] = store[id]
              /\ \A i \in 1..Len(ChunksOf(chunks, e)) :
                    LET ref == ChunksOf(chunks, e)[i].embedding_id
                    IN ref \in DOMAIN store => (ref \in DOMAIN store' /\ store'[ref] = store[ref])]_vars

\* a document was ingested with its vectors written while another completed
\* document has chunk rows and vectors of its own
C22_Witness ==
    /\ out.op = "process"
    /\ out.embedded
    /\ \E e \in (DOMAIN documents) \ {out.document_id} :
          /\ documents[e].processing_status = "completed"
          /\ ChunksOf(chunks, e) # <<>>
          /\ VectorsOf(store, e) # {}
          /\ VectorsOf(store, out.document_id) # {}

\* C23: when at least 2 documents qualify, cluster_documents returns, without
\* an error field, non-empty clusters that partition the qualifying documents
\* (sizes summing to total_documents) and exactly one theme per returned
\* cluster whose member count is that cluster's size (stated for requests that
\* leave the number of clusters to the detector).
C23_ClustersPartitionQualifying ==
    (out.op = "cluster" /\ out.n_clusters = 0 /\ Cardinality(Qualifying) >= 2) =>
        LET r == out.result
            members(k) == {r.clusters[k].documents[i] : i \in 1..Len(r.clusters[k].documents)}
        IN /\ ~r.error
           /\ r.clusters # <<>>
           /\ \A k \in 1..Len(r.clusters) :
                 /\ r.clusters[k].size > 0
                 /\ r.clusters[k].size = Len(r.clusters[k].documents)
                 /\ Cardinality(members(k)) = r.clusters[k].size
           /\ \A d \in Qualifying :
                 Cardinality({k \in 1..Len(r.clusters) : d \in members(k)}) = 1
           /\ SumSeq([k \in 1..Len(r.clusters) |-> r.clusters[k].size]) = r.total_documents
           /\ r.total_documents = Cardinality(Qualifying)
           /\ Len(r.themes) = Len(r.clusters)
           /\ \A k \in 1..Len(r.clusters) :
                 /\ r.themes[k].cluster_id = r.clusters[k].cluster_id
                 /\ r.themes[k].document_count = r.clusters[k].size

\* C24: chunk_text_by_paragraphs, and the sliding-window chunk_text it calls on
\* an oversized paragraph, terminates for every input text and every positive
\* chunk size, including chunk sizes not larger than the window overlap.
C24_ChunkerTerminates ==
    (/\ ckOut.op = "chunked"
     /\ ckIn.fn = "chunk_text_by_paragraphs"
     /\ EffectiveChunkSize(ckIn.chunk_size) > 0) => ckOut.result.terminates

\* C25: every document whose background processing starts eventually leaves
\* the processing status and ends as completed or failed (or is deleted); no
\* document stays in processing forever.
C25_ProcessingEventuallyEnds ==
    \A d \in 1..MaxDocs :
        (d \in DOMAIN documents /\ documents[d].processing_status \in {"pending", "processing"})
            ~> (d \notin DOMAIN documents \/ documents[d].processing_status \in {"completed", "failed"})

\* C26: suggest_connections never returns a connection whose strength is below
\* the detector's default threshold 0.7, whatever threshold the caller supplies:
\* a supplied threshold below 0.7 yields the same connections as the default.
\* Stated for the list the operation returned and, for every answer of the
\* index, for the list built from the grouped neighbours.
C26_NoConnectionBelowDefaultThreshold ==
    out.op = "connections" =>
        \A hits \in NeighbourHits(chunks, store, out.document_id, 10) :
            LET d == out.document_id
                threshold == IF out.threshold.given THEN out.threshold.value ELSE 700000
                built == FormatConnections(d, threshold, GroupAndRank(d, 10, hits))
            IN /\ \A i \in 1..Len(out.result.connections) : out.result.connections[i].strength >= 700000
               /\ \A i \in 1..Len(built) : built[i].strength >= 700000
               /\ threshold < 700000 =>
                     /\ built = FormatConnections(d, 700000, GroupAndRank(d, 10, hits))
                     /\ out.result.connections
                           = suggest_connections(documents, chunks, store, d, NoThreshold, hits).connections

\* connections asked with threshold 0.5 for a document that has a neighbour
\* between 0.5 and 0.7 and another at or above 0.7
C26_Witness ==
    /\ out.op = "connections"
    /\ out.threshold = GivenThreshold(500000)
    /\ \E hits \in NeighbourHits(chunks, store, out.document_id, 10) :
          /\ \E i \in 1..Len(hits) :
                /\ hits[i].metadata.document_id # out.document_id
                /\ HitSimilarity(hits[i].distance) >= 500000
                /\ HitSimilarity(hits[i].distance) < 700000
          /\ FormatConnections(out.document_id, 500000, GroupAndRank(out.document_id, 10, hits)) # <<>>

\* C27: central_documents lists at most 5 documents, those with the highest
\* non-zero centrality in descending order of centrality, documents of equal
\* centrality in natural iteration order of the corpus, each with connections
\* equal to its centrality and centrality_score = centrality / number of
\* documents.  Stated for the list the operation returned and for the ranking
\* step applied to the centralities of the corpus.
C27_CentralDocumentsRanked ==
    (out.op = "network" /\ Cardinality(Completed) >= 2) =>
        LET doc_ids == CompletedIds(documents)
            n == Len(doc_ids)
            centrality == [i \in 1..n |-> ClaimCentrality(doc_ids[i])]
            ranked == CentralIndices(centrality)
            listed == out.analysis.central_documents
        IN /\ Len(listed) <= 5
           /\ \A k \in 1..Len(listed) :
                 /\ listed[k].connections > 0
                 /\ listed[k].centrality_score = (listed[k].connections * MICRO) \div n
           /\ \A k \in 1..(Len(listed) - 1) :
                 \/ listed[k].connections > listed[k + 1].connections
                 \/ /\ listed[k].connections = listed[k + 1].connections
                    /\ listed[k].document_id < listed[k + 1].document_id
           /\ Len(ranked) <= 5
           /\ \A k \in 1..Len(ranked) : centrality[ranked[k]] > 0
           /\ \A k \in 1..(Len(ranked) - 1) :
                 \/ centrality[ranked[k]] > centrality[ranked[k + 1]]
                 \/ /\ centrality[ranked[k]] = centrality[ranked[k + 1]]
                    /\ ranked[k] < ranked[k + 1]

\* C28: a vector hit whose owning document record no longer exists is left out
\* of the search results and does not make search raise; every other hit is
\* returned, in the order the Vector Index produced it.
C28_StaleHitsDropped ==
    (out.op = "search" /\ ~out.raised) =>
        \E hits \in QueryResults(store, embed_text(out.query), out.top_k, WhereFilter(out.document_ids)) :
            LET kept == SelectSeq(hits, LAMBDA h : h.metadata.document_id \in DOMAIN documents)
            IN /\ Len(out.results) = Len(kept)
               /\ \A i \in 1..Len(kept) :
                     /\ out.results[i].document_id = kept[i].metadata.document_id
                     /\ out.results[i].chunk_index = kept[i].metadata.chunk_index
                     /\ out.results[i].chunk_text = kept[i].document

\* the index answered the last search with a vector of a deleted document
\* followed by one of an existing document, and the search returned the latter
C28_Witness ==
    /\ out.op = "search"
    /\ ~out.raised
    /\ Len(out.results) = 1
    /\ \E hits \in QueryResults(store, embed_text(out.query), out.top_k, WhereFilter(out.document_ids)) :
          /\ Len(hits) = 2
          /\ hits[1].metadata.document_id \notin DOMAIN documents
          /\ hits[2].metadata.document_id \in DOMAIN documents
          /\ out.results[1].document_id = hits[2].metadata.document_id
          /\ out.results[1].chunk_index = hits[2].metadata.chunk_index

\* C29: when n_clusters is not supplied and n >= 2 documents qualify, the
\* number of clusters used by cluster_documents is min(max_clusters,
\* max(2, n // 3)): at least 2, at most 10, and never more than n.
C29_DerivedClusterCount ==
    (out.op = "cluster" /\ out.n_clusters = 0 /\ Cardinality(Qualifying) >= 2) =>
        LET n == Cardinality(Qualifying)
            used == out.result.n_clusters
        IN /\ used = (IF 10 < (IF 2 > n \div 3 THEN 2 ELSE n \div 3) THEN 10
                      ELSE (IF 2 > n \div 3 THEN 2 ELSE n \div 3))
           /\ 2 <= used
           /\ used <= 10
           /\ used <= n

\* C30: when the parser raises during process_document, the failure is
\* surfaced as an error outcome and never as a success: the document ends in
\* status failed with the error message recorded, and no chunk rows or vectors
\* exist for it.
C30_ParseFailureLeavesNothing ==
    (out.op = "process" /\ out.outcome = "raised") =>
        /\ documents[out.document_id].processing_status = "failed"
        /\ documents[out.document_id].error_message # ""
        /\ ChunksOf(chunks, out.document_id) = <<>>
        /\ VectorsOf(store, out.document_id) = {}

====
